---- MODULE Spec2Model ----
(***************************************************************************)
(* inline-option: IOption<T>, a single-slot optional over a Nullable T.    *)
(*                                                                         *)
(* The model follows src/src/lib.rs.  A value of T is an integer: the      *)
(* number itself for i32 and for the benchmark's TestU32(u32), the IEEE    *)
(* bit pattern for f32.  An IOption<T> is the 1-tuple <<v>> of its stored  *)
(* T (the newtype `pub struct IOption<T: Nullable>(T)`), so self.0 is      *)
(* self[1].  A tagged optional (core Option) is [tag, val].                *)
(***************************************************************************)
EXTENDS Integers, Sequences, FiniteSets, TLC

VARIABLES T, x, o, op, arg, ret, calls

vars == <<T, x, o, op, arg, ret, calls>>

\* Live values 0..MaxSmall are drawn for every type besides the named ones.
MaxSmall == 1

---------------------------------------------------------------------------
\* Machine numbers.  An f32 is its 32 bits read as an i32 (f32::to_bits as
\* i32), so every bit pattern is an integer of the i32 range.

Pow2(n) == 2 ^ n

i32_MAX == 2147483647

\* value.wrapping_mul(2) of an i32
WrappingDouble(v) ==
    IF v >= Pow2(30) THEN ((v - Pow2(30)) - Pow2(30)) * 2
    ELSE IF v < -Pow2(30) THEN ((v + Pow2(30)) + Pow2(30)) * 2
    ELSE v * 2

\* core::f32::NAN, as bits (0x7FC00000)
f32_NAN == 2143289344

\* the bits without the sign bit (bits & 0x7FFF_FFFF)
F32Mag(bits) == IF bits < 0 THEN (bits + Pow2(30)) + Pow2(30) ELSE bits

F32Exp(bits) == F32Mag(bits) \div Pow2(23)

F32Mantissa(bits) == F32Mag(bits) % Pow2(23)

\* f32::is_nan: exponent all ones and a non-zero mantissa
f32_is_nan(bits) == F32Exp(bits) = 255 /\ F32Mantissa(bits) # 0

\* IEEE equality of two f32: no NaN equals anything, +0.0 equals -0.0
f32_eq(a, b) ==
    /\ ~f32_is_nan(a)
    /\ ~f32_is_nan(b)
    /\ \/ a = b
       \/ F32Mag(a) = 0 /\ F32Mag(b) = 0

\* value * 2.0 on the bits of an f32
f32_double(bits) ==
    LET mag == F32Mag(bits)
        e   == F32Exp(bits)
        dbl == IF e = 255 THEN mag
               ELSE IF e = 0 THEN mag * 2
               ELSE IF e = 254 THEN 255 * Pow2(23)
               ELSE mag + Pow2(23)
    IN  IF bits < 0 THEN (dbl - Pow2(30)) - Pow2(30) ELSE dbl

---------------------------------------------------------------------------
\* The Nullable capability: NULL and is_null, per conformance.  i32 and f32
\* are the library's own conformances, TestU32(u32) the benchmark's.

Types == {"i32", "f32", "TestU32"}

\* const NULL: Self
NULL(ty) ==
    CASE ty = "i32"     -> i32_MAX
      [] ty = "f32"     -> f32_NAN
      [] ty = "TestU32" -> 0

\* fn is_null(&self) -> bool
is_null(ty, v) ==
    CASE ty = "i32"     -> v = i32_MAX
      [] ty = "f32"     -> f32_is_nan(v)
      [] ty = "TestU32" -> v = 0

\* Default::default() of T: 0, 0.0 (all bits zero), TestU32(0)
T_default(ty) == 0

\* T's PartialEq; TestU32 derives only Clone and Default
HasEq(ty) == ty \in {"i32", "f32"}

T_eq(ty, a, b) == IF ty = "f32" THEN f32_eq(a, b) ELSE a = b

\* The values of T the operations are exercised with, besides 0..MaxSmall.
\* f32: 1.5, +inf, NAN, a second quiet NaN (0x7FC00001), a negative NaN
\* (0xFFC00000), -0.0 (0x80000000).  The u32 values stay below 2^30.
Values(ty) ==
    (0 .. MaxSmall) \cup
    CASE ty = "i32"     -> {42, 43, i32_MAX - 1, i32_MAX}
      [] ty = "f32"     -> {1069547520, 2139095040, f32_NAN, f32_NAN + 1,
                            -4194304, -i32_MAX - 1}
      [] ty = "TestU32" -> {42, 43}

---------------------------------------------------------------------------
\* Callbacks handed to the operations.  A value-consuming callback is named;
\* a nullary one (`|| v`) is the value it returns.

MapFns == {"double", "null", "is_nonzero"}

\* the U of an F: FnOnce(T) -> U
FnU(f, ty) == IF f = "is_nonzero" THEN "TestU32" ELSE ty

\* f(v):  |value| value * 2,  |_| U::NULL,
\*        |value| TestU32((value != zero) as u32)
Apply(f, ty, v) ==
    CASE f = "double" ->
           (CASE ty = "i32"     -> WrappingDouble(v)
              [] ty = "f32"     -> f32_double(v)
              [] ty = "TestU32" -> v * 2)
      [] f = "null" -> NULL(ty)
      [] f = "is_nonzero" ->
           IF (IF ty = "f32" THEN F32Mag(v) = 0 ELSE v = 0) THEN 0 ELSE 1

Predicates(ty) == IF ty = "f32" THEN {"always", "never"}
                  ELSE {"is_even", "always", "never"}

\* predicate(&inner):  |value| *value % 2 == 0,  |_| true,  |_| false
Test(p, v) ==
    CASE p = "is_even" -> v % 2 = 0
      [] p = "always"  -> TRUE
      [] p = "never"   -> FALSE

---------------------------------------------------------------------------
\* Results.  R(kind, ty, val) is a value of the named kind over type ty.

R(kind, ty, val) == [kind |-> kind, ty |-> ty, val |-> val]

Some(v) == [tag |-> "Some", val |-> v]

None == [tag |-> "None", val |-> 0]

Ok(v) == [tag |-> "Ok", val |-> v]

Err(e) == [tag |-> "Err", val |-> e]

Panic(msg) == R("panic", "!", msg)

Unit == R("()", "()", 0)

\* what an operation leaves behind: the container, its result, and the
\* callbacks it invoked, in order
Out(self, r, c) == [self |-> self, ret |-> r, calls |-> c]

---------------------------------------------------------------------------
\* impl<T: Nullable> IOption<T>

new(value) == <<value>>

none(ty) == <<NULL(ty)>>

IOption_default(ty) == new(NULL(ty))

\* is_none written as a comparison with T::NULL instead of a call of is_null
is_none_by_eq(ty, self) == T_eq(ty, self[1], NULL(ty))

is_none(ty, self) == is_null(ty, self[1])

is_some(ty, self) == ~is_none(ty, self)

into_inner(self) == self[1]

as_ref(ty, self) == IF is_none(ty, self) THEN None ELSE Some(self[1])

as_mut(ty, self) == IF is_none(ty, self) THEN None ELSE Some(self[1])

\* map without the test for None: f is applied to whatever is stored
map_unconditional(ty, self, f) ==
    Out(self, R("IOption", FnU(f, ty), new(Apply(f, ty, into_inner(self)))),
        <<"f">>)

map(ty, self, f) ==
    IF is_none(ty, self)
    THEN Out(self, R("IOption", FnU(f, ty), new(NULL(FnU(f, ty)))), <<>>)
    ELSE Out(self, R("IOption", FnU(f, ty), new(Apply(f, ty, into_inner(self)))),
             <<"f">>)

map_or(ty, self, default, f) ==
    IF is_none(ty, self)
    THEN Out(self, R("T", FnU(f, ty), default), <<>>)
    ELSE Out(self, R("T", FnU(f, ty), Apply(f, ty, into_inner(self))), <<"f">>)

map_or_else(ty, self, default, f) ==
    IF is_none(ty, self)
    THEN Out(self, R("T", FnU(f, ty), default), <<"default">>)
    ELSE Out(self, R("T", FnU(f, ty), Apply(f, ty, into_inner(self))), <<"f">>)

ok_or(ty, self, err) ==
    IF is_none(ty, self)
    THEN Out(self, R("Result", ty, Err(err)), <<>>)
    ELSE Out(self, R("Result", ty, Ok(into_inner(self))), <<>>)

ok_or_else(ty, self, err) ==
    IF is_none(ty, self)
    THEN Out(self, R("Result", ty, Err(err)), <<"err">>)
    ELSE Out(self, R("Result", ty, Ok(into_inner(self))), <<>>)

and(ty, self, u, other) ==
    IF is_none(ty, self)
    THEN Out(self, R("IOption", u, new(NULL(u))), <<>>)
    ELSE Out(self, R("IOption", u, other), <<>>)

and_then(ty, self, f) ==
    IF is_none(ty, self)
    THEN Out(self, R("IOption", FnU(f, ty), new(NULL(FnU(f, ty)))), <<>>)
    ELSE Out(self, R("IOption", FnU(f, ty), new(Apply(f, ty, into_inner(self)))),
             <<"f">>)

or(ty, self, other) ==
    IF is_none(ty, self)
    THEN Out(self, R("IOption", ty, other), <<>>)
    ELSE Out(self, R("IOption", ty, self), <<>>)

or_else(ty, self, f) ==
    IF is_none(ty, self)
    THEN Out(self, R("IOption", ty, f), <<"f">>)
    ELSE Out(self, R("IOption", ty, self), <<>>)

unwrap(ty, self) ==
    IF is_none(ty, self)
    THEN Out(self, Panic("called IOption::unwrap() on a None value"), <<>>)
    ELSE Out(self, R("T", ty, into_inner(self)), <<>>)

unwrap_or(ty, self, default) ==
    IF is_none(ty, self)
    THEN Out(self, R("T", ty, default), <<>>)
    ELSE Out(self, R("T", ty, into_inner(self)), <<>>)

unwrap_or_else(ty, self, f) ==
    IF is_none(ty, self)
    THEN Out(self, R("T", ty, f), <<"f">>)
    ELSE Out(self, R("T", ty, into_inner(self)), <<>>)

expect(ty, self, msg) ==
    IF is_none(ty, self)
    THEN Out(self, Panic(msg), <<>>)
    ELSE Out(self, R("T", ty, into_inner(self)), <<>>)

\* core::option::IntoIter over the borrow: one item when present, else empty
iter(ty, self) == Out(self, R("IntoIter<&T>", ty, as_ref(ty, self)), <<>>)

iter_mut(ty, self) ==
    Out(self, R("IntoIter<&mut T>", ty, as_mut(ty, self)), <<>>)

\* filter with the operands of || swapped: the predicate runs first
filter_eager(ty, self, predicate) ==
    LET inner == into_inner(self)
    IN  IF ~Test(predicate, inner) \/ is_null(ty, inner)
        THEN Out(self, R("IOption", ty, new(NULL(ty))), <<"predicate">>)
        ELSE Out(self, R("IOption", ty, new(inner)), <<"predicate">>)

filter(ty, self, predicate) ==
    LET inner == into_inner(self)
    IN  IF is_null(ty, inner)
        THEN Out(self, R("IOption", ty, new(NULL(ty))), <<>>)
        ELSE IF ~Test(predicate, inner)
        THEN Out(self, R("IOption", ty, new(NULL(ty))), <<"predicate">>)
        ELSE Out(self, R("IOption", ty, new(inner)), <<"predicate">>)

\* take that copies the slot out and does not reset it
take_copy(ty, self) == Out(self, R("IOption", ty, self), <<>>)

\* core::mem::take(self): the slot is left holding Default::default()
take(ty, self) == Out(IOption_default(ty), R("IOption", ty, self), <<>>)

\* replace that stores the value and hands the new container back
replace_returns_new(ty, self, value) ==
    Out(new(value), R("IOption", ty, new(value)), <<>>)

\* core::mem::replace(self, IOption::new(value))
replace(ty, self, value) == Out(new(value), R("IOption", ty, self), <<>>)

\* Option::unwrap on the Option<&mut T> of as_mut
Option_unwrap(ty, opt) ==
    IF opt.tag = "None"
    THEN Panic("called Option::unwrap() on a None value")
    ELSE R("&mut T", ty, opt.val)

get_or_insert(ty, self, value) ==
    LET s == IF is_none(ty, self) THEN new(value) ELSE self
    IN  Out(s, Option_unwrap(ty, as_mut(ty, s)), <<>>)

get_or_insert_with(ty, self, f) ==
    LET s == IF is_none(ty, self) THEN new(f) ELSE self
    IN  Out(s, Option_unwrap(ty, as_mut(ty, s)),
            IF is_none(ty, self) THEN <<"f">> ELSE <<>>)

get_or_insert_default(ty, self) ==
    LET s == IF is_none(ty, self) THEN new(T_default(ty)) ELSE self
    IN  Out(s, Option_unwrap(ty, as_mut(ty, s)), <<>>)

\* the absent case built from T::default() instead of T::NULL
From_Option_default(ty, option) ==
    IF option.tag = "Some" THEN new(option.val) ELSE new(T_default(ty))

\* impl From<Option<T>> for IOption<T>
From_Option(ty, option) ==
    IF option.tag = "Some" THEN new(option.val) ELSE new(NULL(ty))

\* the conversion without the is_none test
Into_Option_always_some(ty, ioption) == Some(into_inner(ioption))

\* impl From<IOption<T>> for Option<T>
Into_Option(ty, ioption) ==
    IF is_none(ty, ioption) THEN None ELSE Some(into_inner(ioption))

\* impl From<T> for IOption<T>
From_T(value) == new(value)

\* an equality written by hand that first compares the logical states
IOption_eq_by_state(ty, a, b) ==
    IF is_none(ty, a) \/ is_none(ty, b)
    THEN is_none(ty, a) /\ is_none(ty, b)
    ELSE T_eq(ty, a[1], b[1])

\* #[derive(PartialEq)]: field-wise, so T's equality on the stored values
IOption_eq(ty, a, b) == T_eq(ty, a[1], b[1])

---------------------------------------------------------------------------
\* The state machine: one container x of type IOption<T>, one tagged
\* optional o of type Option<T>, and the last operation applied with its
\* arguments (arg), its result (ret) and the callbacks it invoked (calls).

\* arguments of an operation: a value, a callback, the type U of the value
A(v, f, u) == [v |-> v, f |-> f, u |-> u]

NoArg == A(0, "-", "-")

\* the tagged optionals of T
Options(ty) == {None} \cup {Some(v) : v \in Values(ty)}

\* messages handed to expect
Messages == {"error"}

\* error values handed to ok_or / ok_or_else
Errors == {"error"}

\* a panic aborts the process: nothing runs after it
Running == ret.kind # "panic"

\* the last operation handed out a live &mut T into the slot
BorrowedMut ==
    \/ ret.kind = "&mut T"
    \/ ret.kind \in {"Option<&mut T>", "IntoIter<&mut T>"} /\ ret.val.tag = "Some"

Init ==
    /\ T \in Types
    /\ x = none(T)
    /\ o = None
    /\ op = "none"
    /\ arg = NoArg
    /\ ret = R("IOption", T, none(T))
    /\ calls = <<>>

Step(name, a, out) ==
    /\ op' = name
    /\ arg' = a
    /\ x' = out.self
    /\ ret' = out.ret
    /\ calls' = out.calls
    /\ UNCHANGED <<T, o>>

New ==
    /\ Running
    /\ \E v \in Values(T) :
        Step("new", A(v, "-", T), Out(new(v), R("IOption", T, new(v)), <<>>))

NoneOp ==
    /\ Running
    /\ Step("none", NoArg, Out(none(T), R("IOption", T, none(T)), <<>>))

Default ==
    /\ Running
    /\ Step("default", NoArg,
         Out(IOption_default(T), R("IOption", T, IOption_default(T)), <<>>))

IsNone ==
    /\ Running
    /\ Step("is_none", NoArg, Out(x, R("bool", "bool", is_none(T, x)), <<>>))

IsSome ==
    /\ Running
    /\ Step("is_some", NoArg, Out(x, R("bool", "bool", is_some(T, x)), <<>>))

IntoInner ==
    /\ Running
    /\ Step("into_inner", NoArg, Out(x, R("T", T, into_inner(x)), <<>>))

AsRef ==
    /\ Running
    /\ Step("as_ref", NoArg, Out(x, R("Option<&T>", T, as_ref(T, x)), <<>>))

AsMut ==
    /\ Running
    /\ Step("as_mut", NoArg, Out(x, R("Option<&mut T>", T, as_mut(T, x)), <<>>))

\* `*borrow = v` through the &mut T of as_mut, iter_mut or get_or_insert*
WriteBorrow ==
    /\ Running
    /\ BorrowedMut
    /\ \E v \in Values(T) : Step("write", A(v, "-", T), Out(<<v>>, Unit, <<>>))

Map ==
    /\ Running
    /\ \E f \in MapFns : Step("map", A(0, f, FnU(f, T)), map(T, x, f))

MapOr ==
    /\ Running
    /\ \E f \in MapFns : \E d \in Values(FnU(f, T)) :
        Step("map_or", A(d, f, FnU(f, T)), map_or(T, x, d, f))

MapOrElse ==
    /\ Running
    /\ \E f \in MapFns : \E d \in Values(FnU(f, T)) :
        Step("map_or_else", A(d, f, FnU(f, T)), map_or_else(T, x, d, f))

OkOr ==
    /\ Running
    /\ \E e \in Errors : Step("ok_or", A(e, "-", "E"), ok_or(T, x, e))

OkOrElse ==
    /\ Running
    /\ \E e \in Errors : Step("ok_or_else", A(e, "-", "E"), ok_or_else(T, x, e))

And ==
    /\ Running
    /\ \E u \in Types : \E v \in Values(u) :
        Step("and", A(new(v), "-", u), and(T, x, u, new(v)))

AndThen ==
    /\ Running
    /\ \E f \in MapFns : Step("and_then", A(0, f, FnU(f, T)), and_then(T, x, f))

Or ==
    /\ Running
    /\ \E v \in Values(T) : Step("or", A(new(v), "-", T), or(T, x, new(v)))

OrElse ==
    /\ Running
    /\ \E v \in Values(T) : Step("or_else", A(new(v), "-", T), or_else(T, x, new(v)))

Unwrap ==
    /\ Running
    /\ Step("unwrap", NoArg, unwrap(T, x))

UnwrapOr ==
    /\ Running
    /\ \E v \in Values(T) : Step("unwrap_or", A(v, "-", T), unwrap_or(T, x, v))

UnwrapOrElse ==
    /\ Running
    /\ \E v \in Values(T) :
        Step("unwrap_or_else", A(v, "-", T), unwrap_or_else(T, x, v))

Expect ==
    /\ Running
    /\ \E m \in Messages : Step("expect", A(m, "-", "&str"), expect(T, x, m))

Iter ==
    /\ Running
    /\ Step("iter", NoArg, iter(T, x))

IterMut ==
    /\ Running
    /\ Step("iter_mut", NoArg, iter_mut(T, x))

Filter ==
    /\ Running
    /\ \E p \in Predicates(T) : Step("filter", A(0, p, T), filter(T, x, p))

Take ==
    /\ Running
    /\ Step("take", NoArg, take(T, x))

Replace ==
    /\ Running
    /\ \E v \in Values(T) : Step("replace", A(v, "-", T), replace(T, x, v))

GetOrInsert ==
    /\ Running
    /\ \E v \in Values(T) :
        Step("get_or_insert", A(v, "-", T), get_or_insert(T, x, v))

GetOrInsertWith ==
    /\ Running
    /\ \E v \in Values(T) :
        Step("get_or_insert_with", A(v, "-", T), get_or_insert_with(T, x, v))

GetOrInsertDefault ==
    /\ Running
    /\ Step("get_or_insert_default", NoArg, get_or_insert_default(T, x))

\* IOption::from(option): the container is built from a tagged optional
FromOption ==
    /\ Running
    /\ \E option \in Options(T) :
        /\ o' = option
        /\ x' = From_Option(T, option)
        /\ op' = "from_option"
        /\ arg' = NoArg
        /\ ret' = R("IOption", T, x')
        /\ calls' = <<>>
        /\ UNCHANGED T

\* Option::from(ioption): the tagged optional is built from the container
IntoOption ==
    /\ Running
    /\ o' = Into_Option(T, x)
    /\ op' = "into_option"
    /\ arg' = NoArg
    /\ ret' = R("Option<T>", T, o')
    /\ calls' = <<>>
    /\ UNCHANGED <<T, x>>

FromValue ==
    /\ Running
    /\ \E v \in Values(T) :
        Step("from_value", A(v, "-", T),
             Out(From_T(v), R("IOption", T, From_T(v)), <<>>))

\* self == other, for a T that has PartialEq
Eq ==
    /\ Running
    /\ HasEq(T)
    /\ \E v \in Values(T) :
           Step("eq", A(new(v), "-", T),
                Out(x, R("bool", "bool", IOption_eq(T, x, new(v))), <<>>))

Next ==
    \/ New \/ NoneOp \/ Default \/ IsNone \/ IsSome \/ IntoInner
    \/ AsRef \/ AsMut \/ WriteBorrow
    \/ Map \/ MapOr \/ MapOrElse \/ OkOr \/ OkOrElse
    \/ And \/ AndThen \/ Or \/ OrElse
    \/ Unwrap \/ UnwrapOr \/ UnwrapOrElse \/ Expect
    \/ Iter \/ IterMut \/ Filter \/ Take \/ Replace
    \/ GetOrInsert \/ GetOrInsertWith \/ GetOrInsertDefault
    \/ FromOption \/ IntoOption \/ FromValue \/ Eq

Spec == Init /\ [][Next]_vars

---------------------------------------------------------------------------
\* Properties.

\* C1: in every reachable state is_none() is true exactly when is_null holds
\* of the stored value, is_some() is its negation, the two calls return
\* these values, and a null value written through a mutable borrow leaves
\* the container None.
C1_NoneIffNull ==
    /\ is_none(T, x) <=> is_null(T, x[1])
    /\ is_some(T, x) <=> ~is_none(T, x)
    /\ op = "is_none" => ret.val = is_null(T, x[1])
    /\ op = "is_some" => ret.val = ~is_null(T, x[1])
    /\ (op = "write" /\ is_null(T, arg.v)) => (is_none(T, x) /\ ~is_some(T, x))

\* a null that is not T::NULL has been written through the borrow
C1_Witness ==
    /\ op = "write"
    /\ is_null(T, arg.v)
    /\ arg.v # NULL(T)
    /\ x = <<arg.v>>
    /\ is_none(T, x)

GetOrInsertOps == {"get_or_insert", "get_or_insert_with", "get_or_insert_default"}

\* C2: every get_or_insert, get_or_insert_with and get_or_insert_default
\* returns a mutable borrow of the stored value with the container Some,
\* and a container that was Some(w) still stores w.
C2_GetOrInsertSome ==
    [][op' \in GetOrInsertOps =>
          /\ ret'.kind = "&mut T"
          /\ is_some(T, x')
          /\ ret'.val = x'[1]
          /\ is_some(T, x) => x' = x]_vars

\* C3: an operation aborts exactly when it is unwrap or expect on None;
\* on Some these two return the stored value.
C3_OnlyUnwrapExpectAbort ==
    /\ ret.kind = "panic" <=> (op \in {"unwrap", "expect"} /\ is_none(T, x))
    /\ (op \in {"unwrap", "expect"} /\ is_some(T, x)) => ret = R("T", T, x[1])

\* C4: converting the container to a tagged optional and that optional
\* back gives None for None and the same stored value for Some.
C4_RoundTrip ==
    op = "into_option" =>
        LET y == From_Option(T, o)
        IN  /\ is_none(T, x) => is_none(T, y)
            /\ is_some(T, x) => (y = x /\ is_some(T, y))

\* a None whose stored null is not T::NULL went through the round trip
C4_Witness ==
    /\ op = "into_option"
    /\ is_none(T, x)
    /\ o = None
    /\ From_Option(T, o) # x

\* C5 as stated: Option::from(IOption::from(o)) = o for every o.
C5_Inverse == op = "from_option" => Into_Option(T, x) = o

\* C5, amended: Option::from(IOption::from(o)) = o when o is absent or
\* Some(v) with v not null; Some(v) with v null comes back as None.
C5_InverseOnLive ==
    op = "from_option" =>
        Into_Option(T, x) =
            IF o.tag = "Some" /\ is_null(T, o.val) THEN None ELSE o

\* a Some holding a null value has been converted
C5_Witness ==
    /\ op = "from_option"
    /\ o.tag = "Some"
    /\ is_null(T, o.val)
    /\ Into_Option(T, x) = None

\* C6: take returns the container as it was and leaves T::NULL stored, so
\* the container is None; a take on a container that is None (as after a
\* take) returns None and leaves None.
C6_Take ==
    [][op' = "take" =>
          /\ ret' = R("IOption", T, x)
          /\ x' = new(NULL(T))
          /\ is_none(T, x')
          /\ (op = "take" \/ is_none(T, x)) =>
                 (is_none(T, ret'.val) /\ is_none(T, x'))]_vars

\* a Some has been taken
C6_Witness ==
    /\ op = "take"
    /\ is_some(T, ret.val)
    /\ x = new(NULL(T))
    /\ is_none(T, x)

\* C7: replace(b) returns the container as it was and leaves b stored.
C7_Replace ==
    [][op' = "replace" =>
          /\ ret' = R("IOption", T, x)
          /\ x' = new(arg'.v)
          /\ is_none(T, ret'.val) <=> is_none(T, x)
          /\ is_none(T, x') <=> is_null(T, arg'.v)]_vars

\* a null value has replaced a live one
C7_Witness ==
    /\ op = "replace"
    /\ is_some(T, ret.val)
    /\ is_null(T, arg.v)
    /\ is_none(T, x)

\* C8: map on None gives an IOption<U> storing U::NULL; on Some(v) it gives
\* one storing f(v), which is None exactly when f(v) is null.  With i32:
\* new(42).map(x*2) stores 84, new(i32::MAX).map(x*2) stores i32::MAX.
C8_Map ==
    op = "map" =>
        LET U  == FnU(arg.f, T)
            fv == Apply(arg.f, T, x[1])
        IN  /\ ret.kind = "IOption" /\ ret.ty = U
            /\ is_none(T, x) => ret.val = <<NULL(U)>>
            /\ is_some(T, x) =>
                   /\ ret.val = <<fv>>
                   /\ is_none(U, ret.val) <=> is_null(U, fv)
            /\ (T = "i32" /\ arg.f = "double" /\ x = <<42>>) => ret.val = <<84>>
            /\ (T = "i32" /\ arg.f = "double" /\ x = <<i32_MAX>>) =>
                   ret.val = <<i32_MAX>>

\* a Some has been mapped to None by a function returning U's sentinel
C8_Witness ==
    /\ op = "map"
    /\ is_some(T, x)
    /\ is_none(ret.ty, ret.val)
    /\ calls = <<"f">>

Range(s) == {s[i] : i \in DOMAIN s}

ValueCallbackOps == {"map", "map_or", "map_or_else", "and_then", "filter"}

FallbackOps ==
    {"or_else", "unwrap_or_else", "ok_or_else", "map_or_else",
     "get_or_insert_with"}

\* the name of the fallback callback of an operation
Fallback(name) ==
    CASE name = "ok_or_else"  -> "err"
      [] name = "map_or_else" -> "default"
      [] OTHER                -> "f"

\* C9: on None the value-consuming callback of map, map_or, map_or_else,
\* and_then and filter is not invoked and the result is None or the
\* default; on Some the fallback callback of or_else, unwrap_or_else,
\* ok_or_else, map_or_else and get_or_insert_with is not invoked; no
\* operation invokes more than one callback, or one more than once.
C9_ShortCircuit ==
    [][/\ Len(calls') <= 1
       /\ (op' \in ValueCallbackOps /\ is_none(T, x)) =>
              /\ Range(calls') \cap {"f", "predicate"} = {}
              /\ op' \in {"map", "and_then", "filter"} =>
                     is_none(ret'.ty, ret'.val)
              /\ op' \in {"map_or", "map_or_else"} => ret'.val = arg'.v
       /\ (op' \in FallbackOps /\ is_some(T, x)) =>
              Fallback(op') \notin Range(calls')]_vars

\* filter has met a None and invoked nothing
C9_Witness ==
    /\ op = "filter"
    /\ arg.f = "always"
    /\ is_none(T, x)
    /\ calls = <<>>
    /\ is_none(T, ret.val)

\* C10 as stated: == is T's equality on the stored values, and two None
\* values always compare equal.
C10_NonesEqual ==
    op = "eq" =>
        /\ ret.val = T_eq(T, x[1], arg.v[1])
        /\ (is_none(T, x) /\ is_none(T, arg.v)) => ret.val

\* C10, amended: == is T's equality on the stored values; two None values
\* compare equal under the integer conformance and never under the float
\* conformance, where no NaN equals a NaN.
C10_EqIsStoredEq ==
    op = "eq" =>
        /\ ret.val = T_eq(T, x[1], arg.v[1])
        /\ (is_none(T, x) /\ is_none(T, arg.v)) => (ret.val <=> T # "f32")

\* two f32 None values, the same NaN bits in both, have been compared
C10_Witness ==
    /\ op = "eq"
    /\ T = "f32"
    /\ is_none(T, x)
    /\ arg.v = x
    /\ ret.val = FALSE

====
